---- MODULE Spec2Model ----
(***************************************************************************)
(* A model of MaskFormerFeatureExtractor                                   *)
(* (src/src/transformers/models/maskformer/feature_extraction_maskformer.py)*)
(*                                                                         *)
(*   - the resizer: _resize.get_size_with_aspect_ratio / get_size          *)
(*   - the batch packer: _max_by_axis and encode_inputs                    *)
(*   - the panoptic merger: remove_low_and_no_objects and                  *)
(*     post_process_panoptic_segmentation                                  *)
(*                                                                         *)
(* Numbers.  Probabilities, scores and thresholds are written in tenths    *)
(* (9 is 0.9), a score-weighted mask probability in hundredths (45 is      *)
(* 0.45).  The mask probabilities used (0, 0.5, 1.0) are exact in float32  *)
(* and a product with float32(0.9) or float32(0.7) lies on the same side   *)
(* of 0.5 as the exact product, so the comparisons of lines 428, 480 and   *)
(* 495 are the comparisons made here; the one comparison that float32      *)
(* changes (line 502) is modelled by AreaRatioExceeds.                     *)
(* Python's None, where an integer argument may be absent, is -1.         *)
(***************************************************************************)
EXTENDS Integers, Sequences, FiniteSets, TLC

VARIABLES
    \* ---- resizer (_resize)
    r_pc,            \* "idle" | "call" | "done"
    image_size,      \* image.size, <<width, height>>
    size,            \* the size argument: [tuple |-> BOOLEAN, s, w, h]
    max_size,        \* the max_size argument, an integer or None
    new_size,        \* size = get_size(image.size, size, max_size): <<width, height>>
    \* ---- batch packer (encode_inputs)
    p_pc,            \* "idle" | "start" | "loop" | "done" | "raised"
    pixel_values_list,          \* the images: arrays of shape <<c, h, w>>
    annotations,                \* <<>> (None), or one [masks, labels] per image
    pad_and_return_pixel_mask,  \* the padding flag
    return_tensors,             \* "pt" | "np"
    canvas,          \* c, height, width = max_size (line 329); <<>> before
    idx,             \* images already handled by the loop of line 335
    pixel_values,    \* the lists the loop appends to
    pixel_mask,
    enc_mask_labels, \* encode_inputs' local mask_labels
    class_labels,
    \* ---- panoptic merger (post_process_panoptic_segmentation)
    m_pc,            \* "idle" | "images" | "queries" | "done"
    batch_size,      \* the number of images of outputs (the length of the zip)
    num_queries,     \* the number of queries of each image
    hw,              \* height * width: the cells of a map, in row-major order
    object_mask_threshold,
    overlap_mask_area_threshold,
    image_no,        \* images the loop of line 465 has finished
    mask_probs,      \* the loop variables of line 465, filtered at line 467
    pred_scores,
    pred_labels,
    mask_labels,     \* line 480: the winning query (from 0) of each cell
    current_segment_id,
    stuff_memory_list,
    k,               \* queries the loop of line 484 has finished
    objects,         \* per image started: the objects segmentation and segments
    results,         \* the list results: per entry, the image whose objects it holds
    returned         \* <<>> before the return, then <<results>>

resizeVars == <<r_pc, image_size, size, max_size, new_size>>
packInputs == <<pixel_values_list, annotations, pad_and_return_pixel_mask, return_tensors>>
packVars == <<p_pc, packInputs, canvas, idx, pixel_values, pixel_mask,
              enc_mask_labels, class_labels>>

mergeInputs == <<batch_size, num_queries, hw, object_mask_threshold,
                 overlap_mask_area_threshold>>
mergeLocals == <<mask_probs, pred_scores, pred_labels, mask_labels,
                 current_segment_id, stuff_memory_list, k>>
mergeVars == <<m_pc, mergeInputs, image_no, mergeLocals, objects, results, returned>>

vars == <<resizeVars, packVars, mergeVars>>

\* max_size=None (line 100): no integer of the model is negative.
None == -1

(***************************************************************************)
(* Bounds of the model.                                                    *)
(***************************************************************************)
MaxEdge == 6         \* image widths and heights are 1..MaxEdge
MaxTarget == 6       \* scalar size arguments are 1..MaxTarget
MaxCap == 6          \* max_size arguments are 1..MaxCap, or None
MaxItems == 2        \* a batch holds 1..MaxItems images
MaxDim == 2          \* image heights and widths are 1..MaxDim before packing
MaxInstances == 1    \* an annotation holds 0..MaxInstances instance masks
NumChannels == 1     \* every image of a batch has NumChannels channels
MaxQueries == 2      \* an image has 1..MaxQueries queries
NumPixels == 2       \* a map has NumPixels cells
MaxBatch == 2        \* a batch of model outputs holds 1..MaxBatch images
LongQueries == 4     \* the long pass: queries of the one image
LongPixels == 4      \* the long pass: cells of its map

Min(x, y) == IF x <= y THEN x ELSE y
Max(x, y) == IF x >= y THEN x ELSE y

(***************************************************************************)
(* The resizer.                                                            *)
(***************************************************************************)

\* Python 3's round(x / y) for integers x >= 0, y > 0: to nearest, a tie to
\* the even neighbour.
PyRound(x, y) ==
    LET q == x \div y
        r == x % y
    IN  IF 2 * r < y THEN q
        ELSE IF 2 * r > y THEN q + 1
        ELSE IF q % 2 = 0 THEN q ELSE q + 1

\* The capped short-edge target (lines 102-106).  The float test
\* max_original_size / min_original_size * size > max_size is the test
\* max * size > max_size * min on the integers of the model.
CappedSize(width, height, sz, cap) ==
    IF cap # None
    THEN LET min_original_size == Min(width, height)
             max_original_size == Max(width, height)
         IN  IF max_original_size * sz > cap * min_original_size
             THEN PyRound(cap * min_original_size, max_original_size)
             ELSE sz
    ELSE sz

\* get_size_with_aspect_ratio with the test of line 111 turned round
\* (width > height), so that the long edge is the one set to size.
get_size_with_aspect_ratio_flipped(imsize, sz, cap) ==
    LET width == imsize[1]
        height == imsize[2]
        s == CappedSize(width, height, sz, cap)
    IN  IF (width <= height /\ width = s) \/ (height <= width /\ height = s)
        THEN <<height, width>>
        ELSE IF width > height
             THEN <<(s * height) \div width, s>>
             ELSE <<s, (s * width) \div height>>

\* get_size_with_aspect_ratio(image_size, size, max_size): <<oh, ow>>.
\* int(size * height / width) truncates a non-negative quotient.
get_size_with_aspect_ratio(imsize, sz, cap) ==
    LET width == imsize[1]
        height == imsize[2]
        s == CappedSize(width, height, sz, cap)
    IN  IF (width <= height /\ width = s) \/ (height <= width /\ height = s)
        THEN <<height, width>>
        ELSE IF width < height
             THEN <<(s * height) \div width, s>>
             ELSE <<s, (s * width) \div height>>

\* get_size: an explicit (width, height) pair verbatim, else the reversed
\* result of get_size_with_aspect_ratio.
get_size(imsize, sz, cap) ==
    IF sz.tuple
    THEN <<sz.w, sz.h>>
    ELSE LET oh_ow == get_size_with_aspect_ratio(imsize, sz.s, cap)
         IN  <<oh_ow[2], oh_ow[1]>>

ScalarSizes == [tuple : {FALSE}, s : 1..MaxTarget, w : {0}, h : {0}]
TupleSizes == [tuple : {TRUE}, s : {0}, w : 1..2, h : 1..2]

ResizeIdle ==
    /\ r_pc = "idle"
    /\ image_size = <<1, 1>>
    /\ size = [tuple |-> FALSE, s |-> 1, w |-> 0, h |-> 0]
    /\ max_size = None
    /\ new_size = <<>>

ResizeInit ==
    /\ r_pc = "call"
    /\ image_size \in (1..MaxEdge) \X (1..MaxEdge)
    /\ size \in ScalarSizes \cup TupleSizes
    /\ max_size \in (1..MaxCap) \cup {None}
    /\ new_size = <<>>

\* _resize: size = get_size(image.size, size, max_size) (line 128).
Resize ==
    /\ r_pc = "call"
    /\ new_size' = get_size(image_size, size, max_size)
    /\ r_pc' = "done"
    /\ UNCHANGED <<image_size, size, max_size>>

(***************************************************************************)
(* The batch packer.  An array is [shape |-> <<d1, d2, d3>>, at |-> its    *)
(* cells]; a 2-D array has shape <<d1, d2>>.                               *)
(***************************************************************************)
Cells(shape) ==
    IF Len(shape) = 3
    THEN (1..shape[1]) \X (1..shape[2]) \X (1..shape[3])
    ELSE (1..shape[1]) \X (1..shape[2])

\* np.zeros(shape)
Zeros(shape) == [shape |-> shape, at |-> [cell \in Cells(shape) |-> 0]]

\* dst[:ext[1], :ext[2], ...] = values, where values gives the new value
\* of each cell of the slice; the slice is clipped to dst.
SliceAssign(dst, ext, values) ==
    [dst EXCEPT !.at =
        [cell \in Cells(dst.shape) |->
            IF \A d \in 1..Len(ext) : cell[d] <= ext[d]
            THEN values[cell]
            ELSE dst.at[cell]]]

\* The images the model packs: cell <<ch, y, x>> of an image of shape
\* <<c, h, w>> holds its row-major position, so the first cell is 0 and
\* every other cell a different positive value.
ImageOf(shape) ==
    [shape |-> shape,
     at |-> [cell \in Cells(shape) |->
                ((cell[1] - 1) * shape[2] + (cell[2] - 1)) * shape[3] + (cell[3] - 1)]]

\* The instance masks the model packs: boolean planes (0 / 1) in a checker
\* pattern, so every plane of more than one cell holds both values and the
\* first cell of the first plane is 1.
MasksOf(shape) ==
    [shape |-> shape,
     at |-> [cell \in Cells(shape) |-> (cell[1] + cell[2] + cell[3] + 1) % 2]]

RECURSIVE MaxByAxisFrom(_, _, _)
MaxByAxisFrom(maxes, the_list, i) ==
    IF i > Len(the_list)
    THEN maxes
    ELSE MaxByAxisFrom(
            [index \in 1..Len(maxes) |-> Max(maxes[index], the_list[i][index])],
            the_list, i + 1)

\* _max_by_axis: maxes = the_list[0], then the per-index max over the rest.
max_by_axis(the_list) == MaxByAxisFrom(the_list[1], the_list, 2)

\* PaddedImage with the slip of line 348: the canvas copied onto itself.
PaddedImageLost(image, cv) ==
    LET padded_image == Zeros(cv)
    IN  SliceAssign(padded_image, padded_image.shape, padded_image.at)

\* Lines 338-340: a zero canvas, the image copied into its top-left corner.
PaddedImage(image, cv) ==
    LET padded_image == Zeros(cv)
    IN  SliceAssign(padded_image, image.shape, image.at)

\* Lines 347-349: a zero array of the canvas' height and width, then
\* padded_masks[:, :padded_masks.shape[1], :padded_masks.shape[2]] =
\* np.copy(padded_masks): the array is copied onto itself, masks is not read.
PaddedMasks(masks, cv) ==
    LET padded_masks == Zeros(<<masks.shape[1], cv[2], cv[3]>>)
    IN  SliceAssign(padded_masks,
                    <<padded_masks.shape[1], padded_masks.shape[2], padded_masks.shape[3]>>,
                    padded_masks.at)

\* Lines 354-355: mask[: image.shape[1], : image.shape[2]] = True, where
\* image is the loop variable as it is at line 355.
PixelMask(image, cv) ==
    LET mask == Zeros(<<cv[2], cv[3]>>)
    IN  SliceAssign(mask, <<image.shape[2], image.shape[3]>>, [cell \in Cells(mask.shape) |-> 1])

ItemShapes == {<<NumChannels, h, w>> : h \in 1..MaxDim, w \in 1..MaxDim}

AnnotationOf(image, n) ==
    [masks |-> MasksOf(<<n, image.shape[2], image.shape[3]>>),
     labels |-> [j \in 1..n |-> j]]

PackIdle ==
    /\ p_pc = "idle"
    /\ pixel_values_list = <<>>
    /\ annotations = <<>>
    /\ pad_and_return_pixel_mask = TRUE
    /\ return_tensors = "pt"
    /\ canvas = <<>>
    /\ idx = 0
    /\ pixel_values = <<>>
    /\ pixel_mask = <<>>
    /\ enc_mask_labels = <<>>
    /\ class_labels = <<>>

PackInit ==
    /\ p_pc = "start"
    /\ \E n \in 1..MaxItems :
          /\ pixel_values_list \in [1..n -> {ImageOf(sh) : sh \in ItemShapes}]
          /\ \/ annotations = <<>>
             \/ \E counts \in [1..n -> 0..MaxInstances] :
                   annotations = [i \in 1..n |-> AnnotationOf(pixel_values_list[i], counts[i])]
    /\ pad_and_return_pixel_mask \in BOOLEAN
    /\ return_tensors \in {"pt", "np"}
    /\ canvas = <<>>
    /\ idx = 0
    /\ pixel_values = <<>>
    /\ pixel_mask = <<>>
    /\ enc_mask_labels = <<>>
    /\ class_labels = <<>>

\* Lines 328-333: the canvas shape and the empty output lists.
EncodeBegin ==
    /\ p_pc = "start"
    /\ canvas' = max_by_axis([i \in 1..Len(pixel_values_list) |-> pixel_values_list[i].shape])
    /\ idx' = 0
    /\ pixel_values' = <<>>
    /\ pixel_mask' = <<>>
    /\ enc_mask_labels' = <<>>
    /\ class_labels' = <<>>
    /\ p_pc' = "loop"
    /\ UNCHANGED packInputs

\* Lines 335-356: one iteration of the loop over the images.
EncodeItem ==
    /\ p_pc = "loop"
    /\ idx < Len(pixel_values_list)
    /\ LET image0 == pixel_values_list[idx + 1]
           image == IF pad_and_return_pixel_mask
                    THEN PaddedImage(image0, canvas)
                    ELSE image0
       IN  /\ pixel_values' = Append(pixel_values, image)
           /\ IF annotations # <<>>
              THEN LET annotation == annotations[idx + 1]
                       masks == IF pad_and_return_pixel_mask
                                THEN PaddedMasks(annotation.masks, canvas)
                                ELSE annotation.masks
                   IN  /\ enc_mask_labels' = Append(enc_mask_labels, masks)
                       /\ class_labels' = Append(class_labels, annotation.labels)
              ELSE UNCHANGED <<enc_mask_labels, class_labels>>
           /\ IF pad_and_return_pixel_mask
              THEN pixel_mask' = Append(pixel_mask, PixelMask(image, canvas))
              ELSE UNCHANGED pixel_mask
    /\ idx' = idx + 1
    /\ UNCHANGED <<p_pc, packInputs, canvas>>

\* Lines 358-378: the BatchFeature is returned, unless annotations were
\* given and return_tensors is not PyTorch (ValueError, line 373).
EncodeReturn ==
    /\ p_pc = "loop"
    /\ idx = Len(pixel_values_list)
    /\ p_pc' = IF annotations # <<>> /\ return_tensors # "pt" THEN "raised" ELSE "done"
    /\ UNCHANGED <<packInputs, canvas, idx, pixel_values, pixel_mask,
                   enc_mask_labels, class_labels>>

(***************************************************************************)
(* The panoptic merger.                                                    *)
(***************************************************************************)

\* self.model.config.dataset_metadata["classes"]: one ClassSpec per real
\* class, from class 0.  num_labels (line 452) is their number; the class
\* num_labels is the null class.
classes == <<[is_thing |-> FALSE, label |-> "sky"], [is_thing |-> TRUE, label |-> "cat"]>>
num_labels == Len(classes)
ClassSpecOf(pred_class) == classes[pred_class + 1]

\* The defaults of the two thresholds (lines 435, 436), in tenths.
ObjectMaskThreshold == 8
OverlapMaskAreaThreshold == 8

Scores == {7, 9}             \* predicted scores (tenths)
Levels == {0, 5, 10}         \* mask probabilities (tenths)
ObjectThresholds == {ObjectMaskThreshold, 10}

AllPlanes(n) == [1..n -> Levels]
OneHotPlanes(n) == {[p \in 1..n |-> IF p = h THEN 10 ELSE 0] : h \in 1..n}
ZeroPlane(n) == [p \in 1..n |-> 0]

\* The indices i of 1..Len(keep) with keep[i], in order.
RECURSIVE Kept(_, _)
Kept(keep, i) ==
    IF i > Len(keep) THEN <<>>
    ELSE IF keep[i] THEN <<i>> \o Kept(keep, i + 1)
    ELSE Kept(keep, i + 1)

\* Line 428: to_keep = labels.ne(num_labels) & (scores > object_mask_threshold)
ToKeep(scores, labels, threshold, nl) ==
    [i \in 1..Len(labels) |-> labels[i] # nl /\ scores[i] > threshold]

\* remove_low_and_no_objects: masks[to_keep], scores[to_keep], labels[to_keep].
\* The three first dimensions are equal here, so line 426 does not raise.
remove_low_and_no_objects(masks, scores, labels, threshold, nl) ==
    LET kept == Kept(ToKeep(scores, labels, threshold, nl), 1)
    IN  [masks |-> [j \in 1..Len(kept) |-> masks[kept[j]]],
         scores |-> [j \in 1..Len(kept) |-> scores[kept[j]]],
         labels |-> [j \in 1..Len(kept) |-> labels[kept[j]]]]

\* Line 478: mask_probs *= pred_scores.view(-1, 1, 1) (tenths * tenths).
Scaled(masks, scores) ==
    [q \in 1..Len(masks) |-> [p \in DOMAIN masks[q] |-> masks[q][p] * scores[q]]]

\* Line 480: mask_probs.argmax(0): per cell the first query (from 0) that
\* holds the maximum.
ArgMax0(probs, n) ==
    [p \in 1..n |->
        (CHOOSE q \in 1..Len(probs) :
            /\ \A o \in 1..Len(probs) : probs[o][p] <= probs[q][p]
            /\ \A o \in 1..(q - 1) : probs[o][p] < probs[q][p]) - 1]

\* Line 490: mask_k = mask_labels == k
MaskK(labels_map, q) == {p \in DOMAIN labels_map : labels_map[p] = q}

\* Line 495: original_area = (mask_probs[k] >= 0.5).sum(), read from
\* mask_probs as it is at that line.
OriginalArea(probs, q) == Cardinality({p \in DOMAIN probs[q + 1] : probs[q + 1][p] >= 50})

\* The tenths t for which float32(t / 10) > t / 10 as a double.
Float32Above == {1, 2, 3, 4, 6, 8}

\* Lines 501-502: area_ratio is a float32 tensor, area_ratio.item() the
\* double of that float32, compared with the double threshold: an exact
\* ratio above the threshold is above it, and a ratio equal to it is above
\* it when float32 rounds it up further than the double does.
AreaRatioExceeds(mask_k_area, original_area, threshold) ==
    \/ 10 * mask_k_area > threshold * original_area
    \/ /\ 10 * mask_k_area = threshold * original_area
       /\ threshold \in Float32Above

\* Lines 497-504: whether query q (from 0) is given a segment.
Accepted(probs, labels_map, q, threshold) ==
    LET mask_k_area == Cardinality(MaskK(labels_map, q))
        original_area == OriginalArea(probs, q)
        mask_does_exist == mask_k_area > 0 /\ original_area > 0
    IN  mask_does_exist /\ AreaRatioExceeds(mask_k_area, original_area, threshold)

\* Lines 506-509: the id the accepted query is given.
SegmentIdFor(pred_class, memory, current) ==
    IF pred_class \in DOMAIN memory THEN memory[pred_class] ELSE current + 1

\* Line 511 writing into a fresh all-zero map instead of the map in hand.
PaintedOver(seg, mask_k, id) == [p \in DOMAIN seg |-> IF p \in mask_k THEN id ELSE 0]

\* Line 511: segmentation[mask_k] = current_segment_id
Painted(seg, mask_k, id) == [p \in DOMAIN seg |-> IF p \in mask_k THEN id ELSE seg[p]]

\* Lines 512-519 with the record's id taken from the predicted class
\* instead of the segment id painted at line 511.
SegmentsAfterClassAsId(segs, id, pred_class) ==
    Append(segs, [id |-> pred_class,
                  category_id |-> pred_class,
                  is_thing |-> ClassSpecOf(pred_class).is_thing,
                  label |-> ClassSpecOf(pred_class).label])

\* Lines 512-519: segments.append({...})
SegmentsAfter(segs, id, pred_class) ==
    Append(segs, [id |-> id,
                  category_id |-> pred_class,
                  is_thing |-> ClassSpecOf(pred_class).is_thing,
                  label |-> ClassSpecOf(pred_class).label])

\* Lines 520-521: stuff_memory_list[pred_class] = current_segment_id
Remember(memory, pred_class, id) ==
    [c \in DOMAIN memory \cup {pred_class} |-> IF c = pred_class THEN id ELSE memory[c]]

EmptyDict == [c \in {} |-> 0]

\* The objects the names segmentation and segments are bound to.
segmentation == objects[Len(objects)].segmentation
segments == objects[Len(objects)].segments

MergeIdle ==
    /\ m_pc = "idle"
    /\ batch_size = 0
    /\ num_queries = 0
    /\ hw = 0
    /\ object_mask_threshold = ObjectMaskThreshold
    /\ overlap_mask_area_threshold = OverlapMaskAreaThreshold
    /\ image_no = 0
    /\ mask_probs = <<>>
    /\ pred_scores = <<>>
    /\ pred_labels = <<>>
    /\ mask_labels = <<>>
    /\ current_segment_id = 0
    /\ stuff_memory_list = EmptyDict
    /\ k = 0
    /\ objects = <<>>
    /\ results = <<>>
    /\ returned = <<>>

\* Lines 449-464: the call, with outputs of the shape
\* (batches, queries, height, width).
MergeInit(batches, queries, cells) ==
    /\ m_pc = "images"
    /\ batch_size \in batches
    /\ num_queries \in queries
    /\ hw \in cells
    /\ object_mask_threshold \in ObjectThresholds
    /\ overlap_mask_area_threshold = OverlapMaskAreaThreshold
    /\ image_no = 0
    /\ mask_probs = <<>>
    /\ pred_scores = <<>>
    /\ pred_labels = <<>>
    /\ mask_labels = <<>>
    /\ current_segment_id = 0
    /\ stuff_memory_list = EmptyDict
    /\ k = 0
    /\ objects = <<>>
    /\ results = <<>>
    /\ returned = <<>>

\* Lines 465-482: the next image of the batch.  Its predicted labels and
\* scores are drawn here; the mask planes are drawn from planes for the
\* queries line 428 keeps, the planes of the others (which line 430 drops
\* unread) are zero.
BeginImage(planes) ==
    /\ m_pc = "images"
    /\ image_no < batch_size
    /\ \E labels \in [1..num_queries -> 0..num_labels],
          scores \in [1..num_queries -> Scores] :
         LET kept == Kept(ToKeep(scores, labels, object_mask_threshold, num_labels), 1)
         IN  \E kept_planes \in [1..Len(kept) -> planes] :
               LET masks == [i \in 1..num_queries |->
                                IF \E j \in 1..Len(kept) : kept[j] = i
                                THEN kept_planes[CHOOSE j \in 1..Len(kept) : kept[j] = i]
                                ELSE ZeroPlane(hw)]
                   r == remove_low_and_no_objects(masks, scores, labels,
                                                  object_mask_threshold, num_labels)
                   we_detect_something == Len(r.masks) > 0
               IN  /\ pred_scores' = r.scores
                   /\ pred_labels' = r.labels
                   /\ objects' = Append(objects, [segmentation |-> ZeroPlane(hw),
                                                  segments |-> <<>>])
                   /\ IF we_detect_something
                      THEN /\ current_segment_id' = 0
                           /\ mask_probs' = Scaled(r.masks, r.scores)
                           /\ mask_labels' = ArgMax0(Scaled(r.masks, r.scores), hw)
                           /\ stuff_memory_list' = EmptyDict
                           /\ k' = 0
                           /\ m_pc' = "queries"
                           /\ image_no' = image_no
                      ELSE /\ mask_probs' = r.masks
                           /\ image_no' = image_no + 1
                           /\ UNCHANGED <<m_pc, mask_labels, current_segment_id,
                                          stuff_memory_list, k>>
    /\ UNCHANGED <<mergeInputs, results, returned>>

\* Lines 484-523: one iteration of the loop over the kept queries, query k.
QueryStep ==
    /\ m_pc = "queries"
    /\ k < Len(pred_labels)
    /\ LET pred_class == pred_labels[k + 1]
           is_stuff == ~ClassSpecOf(pred_class).is_thing
           mask_k == MaskK(mask_labels, k)
           id == SegmentIdFor(pred_class, stuff_memory_list, current_segment_id)
       IN  /\ IF Accepted(mask_probs, mask_labels, k, overlap_mask_area_threshold)
              THEN /\ current_segment_id' = id
                   /\ objects' = [objects EXCEPT ![Len(objects)] =
                                     [segmentation |-> Painted(segmentation, mask_k, id),
                                      segments |-> SegmentsAfter(segments, id, pred_class)]]
                   /\ stuff_memory_list' = IF is_stuff
                                           THEN Remember(stuff_memory_list, pred_class, id)
                                           ELSE stuff_memory_list
              ELSE UNCHANGED <<current_segment_id, objects, stuff_memory_list>>
           /\ results' = Append(results, Len(objects))
    /\ k' = k + 1
    /\ IF k + 1 = Len(pred_labels)
       THEN m_pc' = "images" /\ image_no' = image_no + 1
       ELSE UNCHANGED <<m_pc, image_no>>
    /\ UNCHANGED <<mergeInputs, mask_probs, pred_scores, pred_labels, mask_labels, returned>>

\* Line 525: return results
Return ==
    /\ m_pc = "images"
    /\ image_no = batch_size
    /\ returned' = <<results>>
    /\ m_pc' = "done"
    /\ UNCHANGED <<mergeInputs, image_no, mergeLocals, objects, results>>

InitResize == ResizeInit /\ PackIdle /\ MergeIdle
NextResize == Resize /\ UNCHANGED <<packVars, mergeVars>>
SpecResize == InitResize /\ [][NextResize]_vars

InitPack == PackInit /\ ResizeIdle /\ MergeIdle
NextPack ==
    \/ EncodeBegin /\ UNCHANGED <<resizeVars, mergeVars>>
    \/ EncodeItem /\ UNCHANGED <<resizeVars, mergeVars>>
    \/ EncodeReturn /\ UNCHANGED <<resizeVars, mergeVars>>
SpecPack == InitPack /\ [][NextPack]_vars

\* One image, every mask plane over Levels.
InitMerge == MergeInit({1}, 1..MaxQueries, {NumPixels}) /\ ResizeIdle /\ PackIdle
NextMerge ==
    \/ BeginImage(AllPlanes(hw)) /\ UNCHANGED <<resizeVars, packVars>>
    \/ QueryStep /\ UNCHANGED <<resizeVars, packVars>>
    \/ Return /\ UNCHANGED <<resizeVars, packVars>>
SpecMerge == InitMerge /\ [][NextMerge]_vars

\* A batch of images, each query claiming one cell.
InitBatch == MergeInit(1..MaxBatch, 1..MaxQueries, {NumPixels}) /\ ResizeIdle /\ PackIdle
NextBatch ==
    \/ BeginImage(OneHotPlanes(hw)) /\ UNCHANGED <<resizeVars, packVars>>
    \/ QueryStep /\ UNCHANGED <<resizeVars, packVars>>
    \/ Return /\ UNCHANGED <<resizeVars, packVars>>
SpecBatch == InitBatch /\ [][NextBatch]_vars

\* One image of LongQueries queries, each claiming one of LongPixels cells.
InitLong == MergeInit({1}, {LongQueries}, {LongPixels}) /\ ResizeIdle /\ PackIdle
NextLong == NextBatch
SpecLong == InitLong /\ [][NextLong]_vars

(***************************************************************************)
(* The claims.                                                             *)
(***************************************************************************)

\* The segment list of image i, and its map.
SegmentsOf(i) == objects[i].segments
MapOf(i) == objects[i].segmentation

\* The queries (from 0) of the image in hand that line 504 accepts.
AcceptedQueries ==
    {q \in 0..(Len(pred_labels) - 1) :
        Accepted(mask_probs, mask_labels, q, overlap_mask_area_threshold)}

\* C1: the Segment records emitted for an image carry pairwise distinct
\* ids, each a positive integer.
C1_SegmentIdsDistinct ==
    \A i \in 1..Len(objects) :
        \A x, y \in 1..Len(SegmentsOf(i)) :
            /\ SegmentsOf(i)[x].id > 0
            /\ x # y => SegmentsOf(i)[x].id # SegmentsOf(i)[y].id

\* C2: when two or more accepted queries of an image predict the same stuff
\* class, the finished pass leaves exactly one Segment record of that class,
\* and the map holds the assigned cells of all those queries under its id.
C2_StuffMergedIntoOneSegment ==
    m_pc = "done" =>
        \A c \in 0..(num_labels - 1) :
            LET same == {q \in AcceptedQueries : pred_labels[q + 1] = c}
                records == {x \in 1..Len(segments) : segments[x].category_id = c}
            IN  (~ClassSpecOf(c).is_thing /\ Cardinality(same) >= 2) =>
                    /\ Cardinality(records) = 1
                    /\ \A x \in records : \A q \in same :
                          \A p \in MaskK(mask_labels, q) : segmentation[p] = segments[x].id

\* C3: every accepted query that predicts a thing class has its own
\* segment: the id of its record differs from the id of the record of every
\* other accepted query of the image (line 512 appends one record per
\* accepted query).
C3_ThingHasOwnSegment ==
    \A i \in 1..Len(objects) :
        \A x, y \in 1..Len(SegmentsOf(i)) :
            (x # y /\ SegmentsOf(i)[x].is_thing) =>
                SegmentsOf(i)[x].id # SegmentsOf(i)[y].id

\* C4: when no query of an image survives the filter of line 428, the call
\* still returns a result for that image: an all-zero map and an empty
\* segment list.  Stated of the last image of the batch, whose kept queries
\* the loop variables still hold at the return.
C4_EmptyImageHasResult ==
    (m_pc = "done" /\ Len(pred_labels) = 0) =>
        \E j \in 1..Len(returned[1]) :
            /\ returned[1][j] = batch_size
            /\ MapOf(returned[1][j]) = ZeroPlane(hw)
            /\ SegmentsOf(returned[1][j]) = <<>>

\* C5: for a batch of N images the call returns exactly N results, the
\* i-th holding the map and the segment list of image i.
C5_OneResultPerImage ==
    m_pc = "done" =>
        /\ Len(returned[1]) = batch_size
        /\ \A i \in 1..Len(returned[1]) : returned[1][i] = i

\* Whether cell <<y, x>> lies in the top-left region of shape <<c, h, w>>.
InExtent(shape, y, x) == y <= shape[2] /\ x <= shape[3]

\* C6: when encode_inputs pads, the pixel mask of each item is 1 exactly on
\* the top-left region of the item's original height and width and 0 on
\* every other cell of the canvas.
C6_PixelMaskMarksOriginalExtent ==
    pad_and_return_pixel_mask =>
        \A i \in 1..Len(pixel_mask) :
            \A cell \in Cells(pixel_mask[i].shape) :
                pixel_mask[i].at[cell] =
                    IF InExtent(pixel_values_list[i].shape, cell[1], cell[2]) THEN 1 ELSE 0

\* C7: when encode_inputs pads a batch with annotations, each item's padded
\* instance masks keep the instance count, equal the input planes on the
\* top-left region of the masks' original height and width, and are zero
\* elsewhere.
C7_InstanceMasksPreserved ==
    pad_and_return_pixel_mask =>
        \A i \in 1..Len(enc_mask_labels) :
            LET masks == annotations[i].masks
                padded == enc_mask_labels[i]
            IN  /\ padded.shape = <<masks.shape[1], canvas[2], canvas[3]>>
                /\ \A cell \in Cells(padded.shape) :
                      padded.at[cell] =
                          IF InExtent(masks.shape, cell[2], cell[3])
                          THEN masks.at[cell]
                          ELSE 0

\* C8: when encode_inputs pads a non-empty batch, the canvas height and
\* width are the per-axis maximum over the items; every item handled so far
\* is, at its input position, a canvas that equals the item on the top-left
\* region of the item's extent and is zero elsewhere; all items are handled
\* at the return; and a single-item batch yields the item itself.
C8_ItemsPaddedTopLeft ==
    (p_pc \in {"loop", "done", "raised"} /\ pad_and_return_pixel_mask) =>
        /\ \A d \in 1..3 :
              /\ \E i \in 1..Len(pixel_values_list) : pixel_values_list[i].shape[d] = canvas[d]
              /\ \A i \in 1..Len(pixel_values_list) : pixel_values_list[i].shape[d] <= canvas[d]
        /\ Len(pixel_values) = idx
        /\ p_pc \in {"done", "raised"} => Len(pixel_values) = Len(pixel_values_list)
        /\ \A i \in 1..Len(pixel_values) :
              LET item == pixel_values_list[i]
              IN  /\ pixel_values[i].shape = canvas
                  /\ \A cell \in Cells(canvas) :
                        pixel_values[i].at[cell] =
                            IF cell[1] <= item.shape[1] /\ InExtent(item.shape, cell[2], cell[3])
                            THEN item.at[cell]
                            ELSE 0
                  /\ Len(pixel_values_list) = 1 => pixel_values[i] = item

\* C8's case: a padded batch of two items, the first wider and the second
\* taller, so that each is copied into a canvas larger than itself, and an
\* item holding a non-zero cell.
C8_Witness ==
    /\ p_pc = "done"
    /\ pad_and_return_pixel_mask
    /\ Len(pixel_values) = 2
    /\ pixel_values_list[1].shape[3] > pixel_values_list[2].shape[3]
    /\ pixel_values_list[1].shape[2] < pixel_values_list[2].shape[2]
    /\ \E cell \in Cells(pixel_values_list[1].shape) : pixel_values[1].at[cell] # 0

\* C9: for a scalar size and a max_size, neither output dimension of the
\* resizer exceeds max_size.
C9_OutputWithinMaxSize ==
    (r_pc = "done" /\ ~size.tuple /\ max_size # None) =>
        new_size[1] <= max_size /\ new_size[2] <= max_size

\* C10: when scaling the short edge to size would make the long edge exceed
\* max_size, the output long edge equals exactly max_size.
C10_CappedLongEdgeIsMaxSize ==
    (/\ r_pc = "done"
     /\ ~size.tuple
     /\ max_size # None
     /\ Max(image_size[1], image_size[2]) * size.s > max_size * Min(image_size[1], image_size[2]))
        => Max(new_size[1], new_size[2]) = max_size

\* C11: for a scalar size s and a cap that is absent or not exceeded, the
\* output edge of the input's short edge equals s and the other equals
\* floor(s * long / short); when the input short edge already equals s the
\* output dimensions are the input dimensions.
C11_ShortEdgeMatchedAspectKept ==
    (/\ r_pc = "done"
     /\ ~size.tuple
     /\ \/ max_size = None
        \/ Max(image_size[1], image_size[2]) * size.s
              <= max_size * Min(image_size[1], image_size[2]))
        => LET width == image_size[1]
               height == image_size[2]
           IN  /\ width <= height =>
                     new_size = <<size.s, (size.s * height) \div width>>
               /\ height <= width =>
                     new_size = <<(size.s * width) \div height, size.s>>
               /\ Min(width, height) = size.s => new_size = image_size

\* C11's case: a cap that is present and not exceeded, an image that is not
\* square and whose short edge is not the target, resized with a long edge
\* that the division rounds down.
C11_Witness ==
    /\ r_pc = "done"
    /\ ~size.tuple
    /\ max_size # None
    /\ Max(image_size[1], image_size[2]) * size.s
          <= max_size * Min(image_size[1], image_size[2])
    /\ image_size[1] < image_size[2]
    /\ image_size[1] # size.s
    /\ (size.s * image_size[2]) % image_size[1] # 0
    /\ new_size = <<size.s, (size.s * image_size[2]) \div image_size[1]>>

\* C12: every cell of an image's segmentation map is 0 or the id of some
\* Segment record of that image's segment list, in every state of the pass
\* and so in every returned result.
C12_MapLabelsHaveSegments ==
    \A i \in 1..Len(objects) :
        \A p \in DOMAIN MapOf(i) :
            \/ MapOf(i)[p] = 0
            \/ \E x \in 1..Len(SegmentsOf(i)) : SegmentsOf(i)[x].id = MapOf(i)[p]

\* C12's case: the call has returned a result whose map has a painted cell
\* and an unpainted one, with the record of the painted cell's id.
C12_Witness ==
    /\ m_pc = "done"
    /\ \E j \in 1..Len(returned[1]) :
          LET i == returned[1][j]
          IN  /\ \E p \in DOMAIN MapOf(i) :
                    /\ MapOf(i)[p] # 0
                    /\ \E x \in 1..Len(SegmentsOf(i)) :
                          SegmentsOf(i)[x].id = MapOf(i)[p]
              /\ \E p \in DOMAIN MapOf(i) : MapOf(i)[p] = 0

\* The mask probability (in tenths) of query q at cell p before line 478
\* multiplied it by the query's score: the kept scores are above the
\* object threshold, hence nonzero, and the product is exact.
UnscaledProb(q, p) == mask_probs[q + 1][p] \div pred_scores[q + 1]

\* The count the claim names rawArea: the cells whose unscaled probability
\* for query q is at least 0.5.
RawArea(q) ==
    Cardinality({p \in DOMAIN mask_probs[q + 1] : UnscaledProb(q, p) >= 5})

\* The acceptance decision taken on the unscaled count.
RawAccepted(q) ==
    LET assignedArea == Cardinality(MaskK(mask_labels, q))
    IN  /\ assignedArea > 0
        /\ RawArea(q) > 0
        /\ AreaRatioExceeds(assignedArea, RawArea(q), overlap_mask_area_threshold)

\* C13: the queries that the merge pass has given a segment so far are
\* those whose overlap ratio, with the count of unscaled probabilities
\* >= 0.5 as denominator, exceeds the threshold: one record per such query
\* among the k queries already visited.
C13_RawAreaFromUnscaledMask ==
    (m_pc # "idle" /\ Len(pred_labels) > 0) =>
        Len(segments) = Cardinality({q \in 0..(k - 1) : RawAccepted(q)})

\* The id used for accepted query q: line 512 appends one record per
\* accepted query, in query order, holding the id painted at line 511.
SegmentIdUsed(q) == segments[Cardinality({r \in AcceptedQueries : r <= q})].id

\* C14: during and at the end of an image's merge pass, the map value at a
\* cell is nonzero exactly when the query that won the cell has been
\* visited and was accepted, and it is then the id used for that query;
\* cells won by skipped or not yet visited queries are 0.  Holding in every
\* state of the pass, it leaves each cell one write at most, at the step of
\* its winner.
C14_CellsPaintedByTheirWinner ==
    (m_pc # "idle" /\ Len(pred_labels) > 0) =>
        \A p \in DOMAIN mask_labels :
            IF mask_labels[p] < k /\ mask_labels[p] \in AcceptedQueries
            THEN /\ segmentation[p] # 0
                 /\ segmentation[p] = SegmentIdUsed(mask_labels[p])
            ELSE segmentation[p] = 0

\* C14's case: a finished pass over two queries in which one cell was won
\* by an accepted query and painted, and another by a skipped query and
\* left 0.
C14_Witness ==
    /\ m_pc = "done"
    /\ Len(pred_labels) = 2
    /\ k = 2
    /\ \E p \in DOMAIN mask_labels :
          /\ mask_labels[p] \in AcceptedQueries
          /\ segmentation[p] = SegmentIdUsed(mask_labels[p])
          /\ segmentation[p] # 0
    /\ \E p \in DOMAIN mask_labels :
          /\ mask_labels[p] \notin AcceptedQueries
          /\ segmentation[p] = 0

====
